---- MODULE Spec2Model ----
(***************************************************************************)
(* Agents and environments of HW1/agents.py: the two-location vacuum world *)
(* (TrivialVacuumEnvironment), the agent programs that act in it and the   *)
(* step/run loop of Environment.                                           *)
(*                                                                         *)
(* Python values are modelled by strings: the locations loc_A = (0, 0) and *)
(* loc_B = (1, 0) by "A" and "B", the value None by "None", the statuses   *)
(* and the actions by their own text.  A percept is the pair               *)
(* <<location, status>>.  An attribute an object does not have (location,  *)
(* performance, alive) is a point outside the domain of the function that  *)
(* holds the attribute.                                                    *)
(***************************************************************************)
EXTENDS Integers, Sequences, FiniteSets, TLC

\* ---------------------------------------------------------------- bounds
MaxObjects == 2    \* add_object calls made on the environment
MaxClock == 4      \* step() invocations in a behaviour
MaxExec == 2       \* direct execute_action() calls in a behaviour
MaxSteps == 2      \* largest argument handed to run()
MaxCalls == 3      \* direct program invocations in a behaviour of SpecProgram
MaxScenario == 40  \* step() invocations in a behaviour of a scenario
MaxEnvs == 2       \* largest n handed to compare_agents

\* ------------------------------------------------------------- constants
loc_A == "A"
loc_B == "B"
None == "None"
Locations == {loc_A, loc_B}
Statuses == {"Clean", "Dirty"}
Percepts == Locations \X Statuses

\* The objects the caller has constructed, one of each class, and their classes.
Classes == <<"ReflexVacuumAgent", "ModelBasedVacuumAgent", "TableDrivenAgent", "Dirt">>
Ids == DOMAIN Classes
ClassOf(o) == Classes[o]

\* isinstance(object, Agent)
IsAgent(o) == ClassOf(o) \in {"ReflexVacuumAgent", "ModelBasedVacuumAgent", "TableDrivenAgent"}

VARIABLES
    objects,      \* Environment.objects: sequence of object ids
    agents,       \* Environment.agents: sequence of object ids
    status,       \* TrivialVacuumEnvironment.status: location -> status
    location,     \* object.location, for the objects that have the attribute
    performance,  \* agent.performance, for the objects that have the attribute
    alive,        \* object.alive, for the objects that have the attribute
    model,        \* ModelBasedVacuumAgent: the closure's model, per agent
    percepts,     \* TableDrivenAgent: the closure's percept history, per agent
    seenClean,    \* history: the locations each program has perceived Clean
    seen,         \* the percepts step() handed to the programs, in agent order
    actions,      \* step()'s list `actions`, as of the latest step
    stepCalls,    \* history: step() invocations made by the latest run()
    runSteps,     \* the argument of the latest run()
    clock,        \* step() invocations so far
    execs,        \* direct execute_action() calls so far
    last,         \* history: the latest direct execute_action() call
    trace,        \* SpecProgram: the direct program calls and their results
    status0,      \* history: the status map as the constructor drew it
    error,        \* the exception that ended the latest operation, or None
    traced,       \* the agents whose program TraceAgent has wrapped
    printed,      \* the records new_program has printed: <<agent, percept, action>>
    twin,         \* SpecTrace: the same environment run with unwrapped agents
    cmp           \* SpecCompare: the progress of compare_agents

vars == <<objects, agents, status, location, performance, alive, model, percepts,
          seenClean, seen, actions, stepCalls, runSteps, clock, execs, last, trace,
          status0, error, traced, printed, twin, cmp>>

\* The environment and the agents' closures as one record, so that the methods
\* are operators from state to state.
State == [objects |-> objects, agents |-> agents, status |-> status,
          location |-> location, performance |-> performance, model |-> model,
          percepts |-> percepts, seenClean |-> seenClean, seen |-> seen,
          actions |-> actions, stepCalls |-> stepCalls, error |-> error,
          traced |-> traced, printed |-> printed]

Install(s) ==
    /\ objects' = s.objects
    /\ agents' = s.agents
    /\ status' = s.status
    /\ location' = s.location
    /\ performance' = s.performance
    /\ model' = s.model
    /\ percepts' = s.percepts
    /\ seenClean' = s.seenClean
    /\ seen' = s.seen
    /\ actions' = s.actions
    /\ stepCalls' = s.stepCalls
    /\ error' = s.error
    /\ traced' = s.traced
    /\ printed' = s.printed

\* ------------------------------------------------------- agent programs

\* ReflexVacuumAgent.program with the two moves exchanged
ReflexVacuumAgent_swapped(percept) ==
    LET loc == percept[1]
        st == percept[2]
    IN  IF st = "Dirty" THEN "Suck"
        ELSE IF loc = loc_A THEN "Left"
        ELSE IF loc = loc_B THEN "Right"
        ELSE None

\* ReflexVacuumAgent.program((location, status))
ReflexVacuumAgent_stay(percept) ==
    IF percept[2] = "Dirty" THEN "Suck"
    ELSE IF percept[1] = loc_A THEN "Right"
    ELSE IF percept[1] = loc_B THEN "NoOp"
    ELSE None

ReflexVacuumAgent(percept) ==
    LET loc == percept[1]
        st == percept[2]
    IN  IF st = "Dirty" THEN "Suck"
        ELSE IF loc = loc_A THEN "Right"
        ELSE IF loc = loc_B THEN "Left"
        ELSE None

\* ModelBasedVacuumAgent.program deciding on the model as it was before the
\* current percept was written into it
ModelBasedVacuumAgent_forgets(m, percept) ==
    LET loc == percept[1]
        st == percept[2]
        m2 == [[l \in Locations |-> None] EXCEPT ![loc] = st]
    IN  [model |-> m2,
         action |-> IF m2[loc_A] = "Clean" /\ m2[loc_B] = "Clean" THEN "NoOp"
                    ELSE IF st = "Dirty" THEN "Suck"
                    ELSE IF loc = loc_A THEN "Right"
                    ELSE IF loc = loc_B THEN "Left"
                    ELSE None]

ModelBasedVacuumAgent_onlyRight(m, percept) ==
    LET loc == percept[1]
        st == percept[2]
        m2 == [m EXCEPT ![loc] = st]
    IN  [model |-> m2,
         action |-> IF m2[loc_A] = "Clean" /\ m2[loc_B] = "Clean" THEN "NoOp"
                    ELSE IF st = "Dirty" THEN "Suck"
                    ELSE IF loc = loc_A THEN "Right"
                    ELSE IF loc = loc_B THEN "Right"
                    ELSE None]

ModelBasedVacuumAgent_staleModel(m, percept) ==
    LET loc == percept[1]
        st == percept[2]
        m2 == [m EXCEPT ![loc] = st]
    IN  [model |-> m2,
         action |-> IF m[loc_A] = "Clean" /\ m[loc_B] = "Clean" THEN "NoOp"
                    ELSE IF st = "Dirty" THEN "Suck"
                    ELSE IF loc = loc_A THEN "Right"
                    ELSE IF loc = loc_B THEN "Left"
                    ELSE None]

\* ModelBasedVacuumAgent.program((location, status)) on the closure's model m:
\* the model after the call and the action returned.
ModelBasedVacuumAgent(m, percept) ==
    LET loc == percept[1]
        st == percept[2]
        m2 == [m EXCEPT ![loc] = st]
    IN  [model |-> m2,
         action |-> IF m2[loc_A] = "Clean" /\ m2[loc_B] = "Clean" THEN "NoOp"
                    ELSE IF st = "Dirty" THEN "Suck"
                    ELSE IF loc = loc_A THEN "Right"
                    ELSE IF loc = loc_B THEN "Left"
                    ELSE None]

\* The table handed to TableDrivenAgent: percept sequences to actions.
table ==
    (<< <<loc_A, "Clean">> >> :> "Right") @@
    (<< <<loc_A, "Dirty">> >> :> "Suck") @@
    (<< <<loc_B, "Clean">> >> :> "Jump") @@
    (<< <<loc_B, "Dirty">> >> :> "Suck") @@
    (<< <<loc_A, "Dirty">>, <<loc_A, "Clean">> >> :> "Right") @@
    (<< <<loc_B, "Dirty">>, <<loc_B, "Clean">> >> :> "Left") @@
    (<< <<loc_A, "Clean">>, <<loc_B, "Dirty">> >> :> "Suck") @@
    (<< <<loc_A, "Clean">>, <<loc_B, "Clean">> >> :> "NoOp") @@
    (<< <<loc_A, "Dirty">>, <<loc_A, "Dirty">>, <<loc_A, "Clean">> >> :> "Right")

\* dict.get(key): the value, or None when the key is absent
DictGet(d, key) == IF key \in DOMAIN d THEN d[key] ELSE None

TableDrivenAgent_resetOnMiss(h, percept) ==
    LET h2 == Append(h, percept)
    IN  [percepts |-> IF h2 \in DOMAIN table THEN h2 ELSE <<>>,
         action |-> DictGet(table, h2)]

\* TableDrivenAgent.program(percept) on the closure's list h: the list after
\* the call and the action returned.
TableDrivenAgent(h, percept) ==
    LET h2 == Append(h, percept)
    IN  [percepts |-> h2, action |-> DictGet(table, h2)]

\* interpret_input(percept): the str '1' .. '4', written as Python writes it
interpret_input(percept) ==
    LET loc == percept[1]
        spotStatus == percept[2]
    IN  IF loc = loc_A /\ spotStatus = "Clean" THEN "'1'"
        ELSE IF loc = loc_A /\ spotStatus = "Dirty" THEN "'2'"
        ELSE IF loc = loc_B /\ spotStatus = "Clean" THEN "'3'"
        ELSE "'4'"

\* SimpleReflexAgent.rule_match(state, rules): the loop returns in its first
\* iteration; the state is compared with the ints 1, 2, 3
rule_match(state, rules) ==
    IF Len(rules) = 0 THEN None
    ELSE IF state = "1" THEN "Right"
    ELSE IF state = "2" THEN "Suck"
    ELSE IF state = "3" THEN "Left"
    ELSE "Suck"

\* The names bound at the top level of agents.py.  rule_match is bound in the
\* body of class SimpleReflexAgent, which is no scope of the functions nested
\* in its methods.
ModuleGlobals ==
    {"Object", "Agent", "TraceAgent", "TableDrivenAgent", "ModelBasedVacuumAgent",
     "Environment", "TrivialVacuumEnvironment", "Dirt", "Wall", "interpret_input",
     "SimpleReflexAgent", "loc_A", "loc_B", "ReflexVacuumAgent", "compare_agents",
     "test_agent", "_docex", "e", "rules", "e2", "e3", "random", "copy"}

\* SimpleReflexAgent.program(percept): the action returned, or the exception
\* the call raises
SimpleReflexAgent(rules, percept) ==
    LET state == interpret_input(percept)
    IN  IF "rule_match" \in ModuleGlobals THEN rule_match(state, rules)
        ELSE "NameError"

\* agent.program(percept), dispatched on the agent's class: the state after
\* the call and the action returned.
Program(s, agent, p) ==
    LET cls == ClassOf(agent)
        mb == ModelBasedVacuumAgent(s.model[agent], p)
        td == TableDrivenAgent(s.percepts[agent], p)
    IN  [s |-> [s EXCEPT
                  !.model[agent] = IF cls = "ModelBasedVacuumAgent" THEN mb.model ELSE @,
                  !.percepts[agent] = IF cls = "TableDrivenAgent" THEN td.percepts ELSE @,
                  !.seenClean[agent] = IF p[2] = "Clean" THEN @ \cup {p[1]} ELSE @],
         action |-> IF cls = "ModelBasedVacuumAgent" THEN mb.action
                    ELSE IF cls = "TableDrivenAgent" THEN td.action
                    ELSE ReflexVacuumAgent(p)]

\* a wrapper that asks the original program twice and keeps the second answer
new_program_callsTwice(s, agent, p) ==
    LET r1 == Program(s, agent, p)
        r == Program(r1.s, agent, p)
    IN  [s |-> [r.s EXCEPT !.printed = Append(@, <<agent, p, r.action>>)],
         action |-> r.action]

\* TraceAgent's new_program(percept) around the program of the agent: the
\* original program is called, the record is printed, the action returned.
new_program(s, agent, p) ==
    LET r == Program(s, agent, p)
    IN  [s |-> [r.s EXCEPT !.printed = Append(@, <<agent, p, r.action>>)],
         action |-> r.action]

\* TraceAgent(agent): the agent's program slot is rebound to new_program and
\* the agent itself is returned.
TraceAgent(s, agent) == [s EXCEPT !.traced = @ \cup {agent}]

\* agent.program(percept): the slot holds new_program once TraceAgent has
\* wrapped the agent.
AgentProgram(s, agent, p) ==
    IF agent \in s.traced THEN new_program(s, agent, p) ELSE Program(s, agent, p)

\* ---------------------------------------------------------- environment

\* an is_alive that finds no object alive
is_alive_dead(o) == FALSE

\* Object.is_alive(): hasattr(self, 'alive') and self.alive
is_alive(o) == o \in DOMAIN alive /\ alive[o]

\* is_done that looks for one agent that is not alive, not for the absence of
\* a live one
is_done_anyDead(s) == \E i \in 1 .. Len(s.agents) : ~is_alive(s.agents[i])

\* Environment.is_done()
is_done(s) == \A i \in 1 .. Len(s.agents) : ~is_alive(s.agents[i])

\* TrivialVacuumEnvironment.percept(agent)
percept(s, agent) == <<s.location[agent], s.status[s.location[agent]]>>

\* execute_action with a Right that moves without the -1
execute_action_freeRight(s, agent, action) ==
    IF action = "Right"
    THEN [s EXCEPT !.location[agent] = loc_B]
    ELSE IF action = "Left"
    THEN [s EXCEPT !.location[agent] = loc_A, !.performance[agent] = @ - 1]
    ELSE IF action = "Suck"
    THEN IF s.status[s.location[agent]] = "Dirty"
         THEN [s EXCEPT !.performance[agent] = @ + 10,
                        !.status[s.location[agent]] = "Clean"]
         ELSE [s EXCEPT !.status[s.location[agent]] = "Clean"]
    ELSE s

\* execute_action with a Suck that scores whatever the status is
execute_action_alwaysScore(s, agent, action) ==
    IF action = "Right"
    THEN [s EXCEPT !.location[agent] = loc_B, !.performance[agent] = @ - 1]
    ELSE IF action = "Left"
    THEN [s EXCEPT !.location[agent] = loc_A, !.performance[agent] = @ - 1]
    ELSE IF action = "Suck"
    THEN [s EXCEPT !.performance[agent] = @ + 10,
                   !.status[s.location[agent]] = "Clean"]
    ELSE s

\* execute_action with a final else that charges for the unknown action
execute_action_chargeUnknown(s, agent, action) ==
    IF action = "Right"
    THEN [s EXCEPT !.location[agent] = loc_B, !.performance[agent] = @ - 1]
    ELSE IF action = "Left"
    THEN [s EXCEPT !.location[agent] = loc_A, !.performance[agent] = @ - 1]
    ELSE IF action = "Suck"
    THEN IF s.status[s.location[agent]] = "Dirty"
         THEN [s EXCEPT !.performance[agent] = @ + 10,
                        !.status[s.location[agent]] = "Clean"]
         ELSE [s EXCEPT !.status[s.location[agent]] = "Clean"]
    ELSE IF action = "NoOp" THEN s
    ELSE [s EXCEPT !.performance[agent] = @ - 1]

\* TrivialVacuumEnvironment.execute_action(agent, action)
execute_action(s, agent, action) ==
    IF action = "Right"
    THEN [s EXCEPT !.location[agent] = loc_B, !.performance[agent] = @ - 1]
    ELSE IF action = "Left"
    THEN [s EXCEPT !.location[agent] = loc_A, !.performance[agent] = @ - 1]
    ELSE IF action = "Suck"
    THEN IF s.status[s.location[agent]] = "Dirty"
         THEN [s EXCEPT !.performance[agent] = @ + 10,
                        !.status[s.location[agent]] = "Clean"]
         ELSE [s EXCEPT !.status[s.location[agent]] = "Clean"]
    ELSE s

\* an exogenous_change that lets dirt reappear at A
exogenous_change_dirt(s) == [s EXCEPT !.status[loc_A] = "Dirty"]

\* Environment.exogenous_change(): pass
exogenous_change(s) == s

\* The list comprehension of step(): the percept and the program of every
\* agent from the i-th on, in the order of the agent list.  The percept of an
\* agent whose location is no key of the status map raises KeyError, which
\* ends the comprehension.
RECURSIVE ChooseActions(_, _)
ChooseActions(s, i) ==
    IF i > Len(s.agents) THEN s
    ELSE IF s.location[s.agents[i]] \notin DOMAIN s.status
    THEN [s EXCEPT !.error = "KeyError"]
    ELSE LET p == percept(s, s.agents[i])
             r == AgentProgram(s, s.agents[i], p)
         IN  ChooseActions([r.s EXCEPT !.seen = Append(@, p),
                                       !.actions = Append(@, r.action)], i + 1)

\* The second loop of step(): execute_action for every (agent, action) pair
\* from the i-th on.
RECURSIVE ExecuteActions(_, _)
ExecuteActions(s, i) ==
    IF i > Len(s.agents) \/ i > Len(s.actions) THEN s
    ELSE ExecuteActions(execute_action(s, s.agents[i], s.actions[i]), i + 1)

\* A turn-by-turn step: each agent's action is executed before the next
\* agent's percept is computed.
RECURSIVE TakeTurns(_, _)
TakeTurns(s, i) ==
    IF i > Len(s.agents) THEN s
    ELSE LET p == percept(s, s.agents[i])
             r == AgentProgram(s, s.agents[i], p)
             chosen == [r.s EXCEPT !.seen = Append(@, p),
                                   !.actions = Append(@, r.action)]
         IN  TakeTurns(execute_action(chosen, s.agents[i], r.action), i + 1)

step_takeTurns(s) ==
    IF ~is_done(s)
    THEN exogenous_change(TakeTurns([s EXCEPT !.seen = <<>>, !.actions = <<>>], 1))
    ELSE s

\* Environment.step()
step(s) ==
    IF ~is_done(s)
    THEN LET chosen == ChooseActions([s EXCEPT !.seen = <<>>, !.actions = <<>>], 1)
         IN  IF chosen.error # None THEN chosen
             ELSE exogenous_change(ExecuteActions(chosen, 1))
    ELSE s

\* run without the is_done() test before each step
RECURSIVE run_noDoneTest(_, _)
run_noDoneTest(s, steps) ==
    IF steps = 0 THEN s
    ELSE run_noDoneTest([step(s) EXCEPT !.stepCalls = @ + 1], steps - 1)

\* Environment.run(steps): the loop over range(steps)
RECURSIVE run(_, _)
run(s, steps) ==
    IF steps = 0 THEN s
    ELSE IF s.error # None THEN s
    ELSE IF is_done(s) THEN s
    ELSE run([step(s) EXCEPT !.stepCalls = @ + 1], steps - 1)

\* TrivialVacuumEnvironment.default_location(object): random.choice, whose
\* outcome is rnd
default_location(rnd) == rnd

\* Python truth of a location argument: None is false, a pair is true
Truthy(x) == x # None

\* add_object that places every object at the default location
add_object_ignoreLocation(s, object, loc, rnd) ==
    LET l == default_location(rnd)
        placed == [s EXCEPT
                     !.location = [o \in DOMAIN s.location \cup {object} |->
                                     IF o = object THEN l ELSE s.location[o]],
                     !.objects = Append(@, object)]
    IN  IF IsAgent(object)
        THEN [placed EXCEPT
                !.performance = [o \in DOMAIN s.performance \cup {object} |->
                                   IF o = object THEN 0 ELSE s.performance[o]],
                !.agents = Append(@, object)]
        ELSE placed

\* Environment.add_object(object, location)
add_object(s, object, loc, rnd) ==
    LET l == IF Truthy(loc) THEN loc ELSE default_location(rnd)
        placed == [s EXCEPT
                     !.location = [o \in DOMAIN s.location \cup {object} |->
                                     IF o = object THEN l ELSE s.location[o]],
                     !.objects = Append(@, object)]
    IN  IF IsAgent(object)
        THEN [placed EXCEPT
                !.performance = [o \in DOMAIN s.performance \cup {object} |->
                                   IF o = object THEN 0 ELSE s.performance[o]],
                !.agents = Append(@, object)]
        ELSE placed

\* ----------------------------------------------------------- the system

NoCall == [obj |-> 0, arg |-> "", pre |-> "", was |-> ""]

\* compare_agents not yet called: no environment on the heap.  The heap is
\* the sequence of the environment instances alive, an address is an index.
NoCompare ==
    [pc |-> "idle", heap |-> <<>>, envs |-> <<>>, drawn |-> <<>>,
     AgentFactories |-> <<>>, steps |-> 0, f |-> 0, i |-> 0, copies |-> <<>>,
     total |-> 0, results |-> <<>>]

\* TrivialVacuumEnvironment() with the statuses st drawn by random.choice; the
\* agents constructed, none of them added or wrapped yet.
Env0(st) ==
    [objects |-> <<>>, agents |-> <<>>, status |-> st, location |-> <<>>,
     performance |-> <<>>,
     model |-> [o \in Ids |-> [l \in Locations |-> None]],
     percepts |-> [o \in Ids |-> <<>>],
     seenClean |-> [o \in Ids |-> {}],
     seen |-> <<>>, actions |-> <<>>, stepCalls |-> 0, error |-> None,
     traced |-> {}, printed |-> <<>>]

\* The system with the environment and the agents as in s, nothing run yet.
StartFrom(s) ==
    /\ objects = s.objects
    /\ agents = s.agents
    /\ status = s.status
    /\ location = s.location
    /\ performance = s.performance
    /\ alive = [o \in {x \in Ids : IsAgent(x)} |-> TRUE]
    /\ model = s.model
    /\ percepts = s.percepts
    /\ seenClean = s.seenClean
    /\ seen = s.seen
    /\ actions = s.actions
    /\ stepCalls = s.stepCalls
    /\ error = s.error
    /\ traced = s.traced
    /\ printed = s.printed
    /\ status0 = s.status
    /\ runSteps = 0
    /\ clock = 0
    /\ execs = 0
    /\ last = NoCall
    /\ trace = <<>>
    /\ cmp = NoCompare

\* The environment as constructed, both statuses drawn by random.choice.
Init ==
    /\ \E st \in [Locations -> Statuses] : StartFrom(Env0(st))
    /\ twin = <<>>

\* e.add_object(object, location)
AddObject(object, loc) ==
    /\ Len(objects) < MaxObjects
    /\ error = None
    /\ UNCHANGED <<alive, runSteps, clock, execs, last, trace, status0, twin, cmp>>
    /\ \E rnd \in Locations : Install(add_object(State, object, loc, rnd))

\* e.step()
StepWithin(bound) ==
    /\ clock < bound
    /\ error = None
    /\ Install(step(State))
    /\ clock' = clock + 1
    /\ UNCHANGED <<alive, runSteps, execs, last, trace, status0, twin, cmp>>

Step == StepWithin(MaxClock)

\* e.run(steps)
RunWithin(steps, bound) ==
    /\ clock + steps <= bound
    /\ error = None
    /\ runSteps' = steps
    /\ UNCHANGED <<alive, execs, last, trace, status0, twin, cmp>>
    /\ Install(run([State EXCEPT !.stepCalls = 0], steps))
    /\ clock' = clock + stepCalls'

Run(steps) == RunWithin(steps, MaxClock)

\* e.execute_action(agent, action), for an agent of the environment
ExecuteAction(agent, action) ==
    /\ execs < MaxExec
    /\ error = None
    /\ \E i \in 1 .. Len(agents) : agents[i] = agent
    /\ execs' = execs + 1
    /\ last' = [obj |-> agent, arg |-> action, pre |-> location[agent],
                was |-> status[location[agent]]]
    /\ UNCHANGED <<alive, runSteps, clock, trace, status0, twin, cmp>>
    /\ Install(execute_action(State, agent, action))

ActionValues == {"Right", "Left", "Suck", "NoOp", "Jump", None}

\* The environment driven through add_object, step and run.
Next ==
    \/ \E object \in Ids, loc \in Locations \cup {None} : AddObject(object, loc)
    \/ Step
    \/ \E steps \in 0 .. MaxSteps : Run(steps)

Spec == Init /\ [][Next]_vars

\* The environment driven through add_object and direct execute_action calls.
NextExec ==
    \/ \E object \in Ids, loc \in Locations \cup {None} : AddObject(object, loc)
    \/ \E agent \in Ids, action \in ActionValues : ExecuteAction(agent, action)

SpecExec == Init /\ [][NextExec]_vars

\* ------------------------------------------- programs called directly

\* The rules handed to SimpleReflexAgent: the list of line 391, and no rules
RulesValues == {<<"Left", "Right", "Suck">>, <<>>}

InitProgram == Init /\ status = [l \in Locations |-> "Clean"]

\* a.program(percept), for a constructed agent a
CallProgram(agent, p) ==
    /\ Len(trace) < MaxCalls
    /\ IsAgent(agent)
    /\ LET r == AgentProgram(State, agent, p)
       IN  /\ Install(r.s)
           /\ trace' = Append(trace, <<ClassOf(agent), p, r.action>>)
    /\ UNCHANGED <<alive, runSteps, clock, execs, last, status0, twin, cmp>>

\* SimpleReflexAgent(rules, interpret_input).program(percept)
CallSimpleReflex(rules, p) ==
    /\ Len(trace) < MaxCalls
    /\ trace' = Append(trace, <<"SimpleReflexAgent", p, SimpleReflexAgent(rules, p)>>)
    /\ UNCHANGED <<objects, agents, status, location, performance, alive, model,
                   percepts, seenClean, seen, actions, stepCalls, runSteps, clock,
                   execs, last, status0, error, traced, printed, twin, cmp>>

NextProgram ==
    \/ \E agent \in Ids, p \in Percepts : CallProgram(agent, p)
    \/ \E rules \in RulesValues, p \in Percepts : CallSimpleReflex(rules, p)

SpecProgram == InitProgram /\ [][NextProgram]_vars

\* ------------------------------------------- objects placed by the caller
\* add_object takes whatever location it is handed: the caller may name a
\* place that is no key of the status map, such as (2, 0).
OffMap == "C"

NextPlace ==
    \/ \E object \in Ids, loc \in Locations \cup {OffMap, None} : AddObject(object, loc)
    \/ Step
    \/ \E steps \in 0 .. MaxSteps : Run(steps)

SpecPlace == Init /\ [][NextPlace]_vars

\* ------------------------------------------------- traced beside untraced
\* Two environments built from the same random draws and driven by the same
\* calls: the variables hold the one whose agents are wrapped by TraceAgent
\* when they are added, twin the one whose agents are added as they are.

InitTrace ==
    \E st \in [Locations -> Statuses] : StartFrom(Env0(st)) /\ twin = Env0(st)

\* e.add_object(TraceAgent(agent), loc) beside e.add_object(agent, loc); an
\* agent already wrapped, and an object that is no agent, is added as it is.
AddTraced(object, loc) ==
    /\ Len(objects) < MaxObjects
    /\ error = None
    /\ UNCHANGED <<alive, runSteps, clock, execs, last, trace, status0, cmp>>
    /\ \E rnd \in Locations :
          /\ Install(add_object(IF IsAgent(object) THEN TraceAgent(State, object)
                                ELSE State, object, loc, rnd))
          /\ twin' = add_object(twin, object, loc, rnd)

StepBoth ==
    /\ clock < MaxClock
    /\ error = None
    /\ Install(step(State))
    /\ twin' = step(twin)
    /\ clock' = clock + 1
    /\ UNCHANGED <<alive, runSteps, execs, last, trace, status0, cmp>>

RunBoth(steps) ==
    /\ clock + steps <= MaxClock
    /\ error = None
    /\ runSteps' = steps
    /\ UNCHANGED <<alive, execs, last, trace, status0, cmp>>
    /\ Install(run([State EXCEPT !.stepCalls = 0], steps))
    /\ twin' = run([twin EXCEPT !.stepCalls = 0], steps)
    /\ clock' = clock + stepCalls'

NextTrace ==
    \/ \E object \in Ids, loc \in Locations \cup {None} : AddTraced(object, loc)
    \/ StepBoth
    \/ \E steps \in 0 .. MaxSteps : RunBoth(steps)

SpecTrace == InitTrace /\ [][NextTrace]_vars

\* --------------------------------------------------------- compare_agents
\* compare_agents(TrivialVacuumEnvironment, AgentFactories, n, steps), one
\* action per position: the environments built, the deep copy taken for an
\* agent factory, one iteration of the loop of test_agent, its return.

\* copy.deepcopy without the copying: the same instances are handed on
deepcopy_alias(heap, addrs) == [heap |-> heap, copy |-> addrs]

\* copy.deepcopy(envs): a new instance, equal to the original, for every
\* element of the list
deepcopy(heap, addrs) ==
    [heap |-> heap \o [k \in 1 .. Len(addrs) |-> heap[addrs[k]]],
     copy |-> [k \in 1 .. Len(addrs) |-> Len(heap) + k]]

AgentIds == {o \in Ids : IsAgent(o)}
\* The lists of agent factories compared: two different policies.
AgentFactoryLists == {fs \in AgentIds \X AgentIds : fs[1] # fs[2]}

OnlyCompare ==
    UNCHANGED <<objects, agents, status, location, performance, alive, model,
                percepts, seenClean, seen, actions, stepCalls, runSteps, clock,
                execs, last, trace, status0, error, traced, printed, twin>>

\* envs = [EnvFactory() for i in range(n)]
BuildEnvs(factories, n, steps) ==
    /\ cmp.pc = "idle"
    /\ OnlyCompare
    /\ \E draws \in [1 .. n -> [Locations -> Statuses]] :
          cmp' = [cmp EXCEPT !.pc = "copy",
                             !.heap = [k \in 1 .. n |-> Env0(draws[k])],
                             !.envs = [k \in 1 .. n |-> k],
                             !.drawn = draws,
                             !.AgentFactories = factories,
                             !.steps = steps,
                             !.f = 1]

\* the next element of the result list: copy.deepcopy(envs) is evaluated and
\* test_agent entered (total = 0); past the last factory the list is returned
CopyEnvs ==
    /\ cmp.pc = "copy"
    /\ OnlyCompare
    /\ IF cmp.f > Len(cmp.AgentFactories)
       THEN cmp' = [cmp EXCEPT !.pc = "returned"]
       ELSE LET c == deepcopy(cmp.heap, cmp.envs)
            IN  cmp' = [cmp EXCEPT !.pc = "trial", !.heap = c.heap,
                                   !.copies = c.copy, !.i = 1, !.total = 0]

\* one iteration of "for env in envs" in test_agent
Trial ==
    /\ cmp.pc = "trial"
    /\ cmp.i <= Len(cmp.copies)
    /\ OnlyCompare
    /\ \E rnd \in Locations :
          LET agent == cmp.AgentFactories[cmp.f]
              env == cmp.copies[cmp.i]
              ran == run(add_object(cmp.heap[env], agent, None, rnd), cmp.steps)
          IN  cmp' = [cmp EXCEPT !.heap[env] = ran,
                                 !.total = @ + ran.performance[agent],
                                 !.i = @ + 1]

\* return float(total)/len(envs): the mean is kept as the pair of total and
\* len(envs); the division raises ZeroDivisionError for an empty list
FinishFactory ==
    /\ cmp.pc = "trial"
    /\ cmp.i > Len(cmp.copies)
    /\ OnlyCompare
    /\ IF Len(cmp.copies) = 0
       THEN cmp' = [cmp EXCEPT !.pc = "ZeroDivisionError"]
       ELSE cmp' = [cmp EXCEPT !.pc = "copy", !.f = @ + 1,
                               !.results = Append(@, <<cmp.AgentFactories[cmp.f],
                                                       cmp.total, Len(cmp.copies)>>)]

NextCompare ==
    \/ \E factories \in AgentFactoryLists, n \in 0 .. MaxEnvs, steps \in 0 .. MaxSteps :
          BuildEnvs(factories, n, steps)
    \/ CopyEnvs
    \/ Trial
    \/ FinishFactory

SpecCompare == Init /\ [][NextCompare]_vars

\* ------------------------------------------------------------ scenarios
\* The runs of _docex and of the script: one environment, one agent added at a
\* given location, then step() and run() up to MaxScenario steps.

ReflexId == CHOOSE o \in Ids : ClassOf(o) = "ReflexVacuumAgent"
ModelBasedId == CHOOSE o \in Ids : ClassOf(o) = "ModelBasedVacuumAgent"
TableDrivenId == CHOOSE o \in Ids : ClassOf(o) = "TableDrivenAgent"

DirtyAt(ls) == [l \in Locations |-> IF l \in ls THEN "Dirty" ELSE "Clean"]

NextScenario ==
    \/ StepWithin(MaxScenario)
    \/ \E steps \in 0 .. MaxSteps : RunWithin(steps, MaxScenario)

\* e = TrivialVacuumEnvironment() drawn as A Dirty, B Clean;
\* e.add_object(ReflexVacuumAgent(), loc_A)
InitReflexScenario ==
    /\ StartFrom(add_object(Env0(DirtyAt({loc_A})), ReflexId, loc_A, loc_A))
    /\ twin = <<>>

SpecReflexScenario == InitReflexScenario /\ [][NextScenario]_vars

\* e = TrivialVacuumEnvironment() drawn as A Dirty, B Clean;
\* e.add_object(ModelBasedVacuumAgent(), loc_A)
InitModelScenario ==
    /\ StartFrom(add_object(Env0(DirtyAt({loc_A})), ModelBasedId, loc_A, loc_A))
    /\ twin = <<>>

SpecModelScenario == InitModelScenario /\ [][NextScenario]_vars

\* e = TrivialVacuumEnvironment() with any statuses;
\* e.add_object(ModelBasedVacuumAgent()) at any location
InitModelBased ==
    /\ \E st \in [Locations -> Statuses], loc \in Locations :
           StartFrom(add_object(Env0(st), ModelBasedId, loc, loc))
    /\ twin = <<>>

SpecModelBased == InitModelBased /\ [][NextScenario]_vars

\* ------------------------------------------------------------ properties

\* C1: a direct execute_action with Right puts the agent at B and one with
\* Left puts it at A, whatever its location was; either takes exactly 1 off
\* the agent's performance and leaves the status map as it was.
C1_MoveCostsOne ==
    [][\A agent \in Ids :
          /\ ExecuteAction(agent, "Right") =>
                /\ location'[agent] = loc_B
                /\ performance'[agent] = performance[agent] - 1
                /\ status' = status
          /\ ExecuteAction(agent, "Left") =>
                /\ location'[agent] = loc_A
                /\ performance'[agent] = performance[agent] - 1
                /\ status' = status]_vars

\* C1 witness: a Right executed for an agent that already stood at B.
C1_Witness ==
    /\ last.obj # 0
    /\ last.arg = "Right"
    /\ last.pre = loc_B
    /\ location[last.obj] = loc_B
    /\ performance[last.obj] = -1

\* C2: a direct execute_action with Suck on a Dirty location adds exactly 10
\* to the agent's performance and makes that location Clean; on a Clean
\* location it changes neither performance nor status.  Either way every
\* location attribute and the other location's status stay as they were.
C2_SuckScoresOnce ==
    [][\A agent \in Ids :
          ExecuteAction(agent, "Suck") =>
             /\ IF status[location[agent]] = "Dirty"
                THEN /\ performance'[agent] = performance[agent] + 10
                     /\ status'[location[agent]] = "Clean"
                ELSE /\ performance' = performance
                     /\ status' = status
             /\ location' = location
             /\ \A l \in Locations \ {location[agent]} : status'[l] = status[l]]_vars

\* C2 witness: a Suck on a location that an earlier Suck had cleaned; the 10
\* scored then is still the performance.
C2_Witness ==
    /\ last.obj # 0
    /\ last.arg = "Suck"
    /\ last.was = "Clean"
    /\ execs = 2
    /\ performance[last.obj] = 10
    /\ status[location[last.obj]] = "Clean"

\* C3: a direct execute_action with NoOp, with an action the environment does
\* not know, or with the None a table-driven program returns for a percept
\* history its table does not list, changes no status, no location and no
\* performance.
C3_UnknownActionIgnored ==
    [][/\ \A p \in Percepts :
             TableDrivenAgent(<<p, p, p>>, p).action \in ActionValues \ {"Right", "Left", "Suck"}
       /\ \A agent \in Ids, action \in ActionValues \ {"Right", "Left", "Suck"} :
             ExecuteAction(agent, action) =>
                UNCHANGED <<objects, agents, status, location, performance>>]_vars

\* C3 witness: None executed for an agent that had scored 10 on a Dirty
\* location.
C3_Witness ==
    /\ last.obj # 0
    /\ last.arg = None
    /\ execs = 2
    /\ performance[last.obj] = 10

\* The rule table of the simple-reflex policy: (A, Clean) -> Right,
\* (A, Dirty) -> Suck, (B, Clean) -> Left, (B, Dirty) -> Suck.
RuleTableAction(p) ==
    IF p[2] = "Dirty" THEN "Suck" ELSE IF p[1] = loc_A THEN "Right" ELSE "Left"

\* C4: every call of the fixed-reflex program returns Suck for a Dirty
\* percept, Right for (A, Clean) and Left for (B, Clean), never NoOp, and two
\* calls with the same percept return the same action whatever was called in
\* between.
C4_ReflexRule ==
    \A i \in 1 .. Len(trace) :
       trace[i][1] = "ReflexVacuumAgent" =>
          /\ trace[i][2][2] = "Dirty" => trace[i][3] = "Suck"
          /\ trace[i][2] = <<loc_A, "Clean">> => trace[i][3] = "Right"
          /\ trace[i][2] = <<loc_B, "Clean">> => trace[i][3] = "Left"
          /\ trace[i][3] # "NoOp"
          /\ \A j \in 1 .. Len(trace) :
                (trace[j][1] = "ReflexVacuumAgent" /\ trace[j][2] = trace[i][2])
                   => trace[j][3] = trace[i][3]

\* C4 witness: the reflex program called with (A, Clean), then (B, Clean),
\* then (A, Clean) again.
C4_Witness ==
    /\ Len(trace) = 3
    /\ \A i \in 1 .. 3 : trace[i][1] = "ReflexVacuumAgent"
    /\ trace[1][2] = <<loc_A, "Clean">>
    /\ trace[2][2] = <<loc_B, "Clean">>
    /\ trace[3] = <<"ReflexVacuumAgent", <<loc_A, "Clean">>, "Right">>

\* C5: every call of the simple-reflex program returns the action of the rule
\* table for its percept, and never NoOp.
C5_RuleTable ==
    \A i \in 1 .. Len(trace) :
       trace[i][1] = "SimpleReflexAgent" =>
          /\ trace[i][3] = RuleTableAction(trace[i][2])
          /\ trace[i][3] # "NoOp"

\* C6: in every step, the action a model-based agent's program returned is
\* NoOp exactly when its model holds Clean for both A and B, which is exactly
\* when the program has perceived Clean at both locations, the percept of this
\* step included; otherwise it is Suck for a Dirty percept, Right at A and
\* Left at B.
C6_NoOpIffModelClean ==
    \A i \in 1 .. Len(actions) :
       ClassOf(agents[i]) = "ModelBasedVacuumAgent" =>
          /\ actions[i] = "NoOp" <=>
                (model[agents[i]][loc_A] = "Clean" /\ model[agents[i]][loc_B] = "Clean")
          /\ actions[i] = "NoOp" <=> seenClean[agents[i]] = Locations
          /\ actions[i] # "NoOp" =>
                actions[i] = IF seen[i][2] = "Dirty" THEN "Suck"
                             ELSE IF seen[i][1] = loc_A THEN "Right"
                             ELSE "Left"

\* C6 witness: a model-based agent that scored, moved once and then chose NoOp.
C6_Witness ==
    \E i \in 1 .. Len(actions) :
       /\ ClassOf(agents[i]) = "ModelBasedVacuumAgent"
       /\ actions[i] = "NoOp"
       /\ performance[agents[i]] = 9

\* The places of an agent in the agent list.
Places(a) == {i \in 1 .. Len(agents) : agents[i] = a}

\* C7: in a transition that makes one step(), every registered agent's
\* program receives the percept of the state before the step, in registration
\* order, whatever the agents before it do in that step; the actions are then
\* applied in the same order, so that of several agents that Suck the same
\* Dirty location only the first scores.
C7_PerceptsBeforeActions ==
    [][(clock' = clock + 1 /\ Len(agents) > 0) =>
          /\ Len(seen') = Len(agents)
          /\ Len(actions') = Len(agents)
          /\ \A i \in 1 .. Len(agents) :
                seen'[i] = <<location[agents[i]], status[location[agents[i]]]>>
          /\ \A j \in 1 .. Len(agents) :
                (/\ Cardinality(Places(agents[j])) = 1
                 /\ actions'[j] = "Suck"
                 /\ seen'[j][2] = "Dirty") =>
                   LET first == CHOOSE i \in 1 .. j :
                                   /\ actions'[i] = "Suck"
                                   /\ seen'[i] = seen'[j]
                                   /\ \A k \in 1 .. (i - 1) :
                                         ~(actions'[k] = "Suck" /\ seen'[k] = seen'[j])
                   IN  performance'[agents[j]] =
                          performance[agents[j]] + (IF first = j THEN 10 ELSE 0)]_vars

\* C7 witness: two agents on the same Dirty location both perceived Dirty and
\* both chose Suck in one step; the first scored 10, the second nothing.
C7_Witness ==
    /\ clock = 1
    /\ Len(agents) = 2
    /\ agents[1] # agents[2]
    /\ seen = << <<loc_A, "Dirty">>, <<loc_A, "Dirty">> >>
    /\ actions = <<"Suck", "Suck">>
    /\ performance[agents[1]] = 10
    /\ performance[agents[2]] = 0
    /\ status[loc_A] = "Clean"

\* C8: is_done() is true exactly when no registered agent has an alive flag
\* that is true, so an environment without agents is done; a step() on a done
\* environment changes nothing of the environment or of the agents.
C8_DoneIffNoLiveAgent ==
    [][LET noLive == ~\E i \in 1 .. Len(agents) :
                        agents[i] \in DOMAIN alive /\ alive[agents[i]] = TRUE
       IN  /\ is_done(State) <=> noLive
           /\ Len(agents) = 0 => is_done(State)
           /\ (noLive /\ clock' = clock + 1) =>
                 UNCHANGED <<objects, agents, status, location, performance, alive,
                             model, percepts, seen, actions>>]_vars

\* C8 witness: step() was called on an environment that holds an object but
\* no agent.
C8_Witness ==
    /\ clock > 0
    /\ Len(objects) > 0
    /\ Len(agents) = 0

\* C9: run(steps) makes at most `steps` calls of step(); on an environment
\* that is done it makes none and changes nothing, and it makes fewer than
\* `steps` only when is_done() holds where it returns.
C9_RunBounded ==
    [][\A steps \in 0 .. MaxSteps :
          Run(steps) =>
             /\ stepCalls' <= steps
             /\ is_done(State) =>
                   /\ stepCalls' = 0
                   /\ UNCHANGED <<objects, agents, status, location, performance,
                                  model, percepts, seen, actions, clock>>
             /\ stepCalls' < steps => is_done(State)']_vars

\* C9 witness: a run(2) on an environment with an agent made its two steps.
C9_Witness ==
    /\ runSteps = 2
    /\ stepCalls = 2
    /\ Len(agents) > 0
    /\ clock = 2

\* C10: add_object appends the object to the object list, places it at the
\* location argument when one is given and at A or B otherwise, and, exactly
\* when the object is an Agent, sets its performance to 0 and appends it to
\* the agent list; the agent list is always the agents of the object list in
\* the order they were added.
C10_AddObject ==
    [][/\ \A object \in Ids, loc \in Locations \cup {None} :
             AddObject(object, loc) =>
                /\ objects' = Append(objects, object)
                /\ loc # None => location'[object] = loc
                /\ loc = None => location'[object] \in Locations
                /\ IF IsAgent(object)
                   THEN performance'[object] = 0 /\ agents' = Append(agents, object)
                   ELSE performance' = performance /\ agents' = agents
       /\ agents' = SelectSeq(objects', IsAgent)]_vars

\* C10 witness: an agent added at B by argument after an object that is no
\* agent.
C10_Witness ==
    /\ Len(objects) = 2
    /\ ~IsAgent(objects[1])
    /\ agents = <<objects[2]>>
    /\ location[objects[2]] = loc_B
    /\ performance[objects[2]] = 0
    /\ clock = 0

\* C11: in the scenario of one fixed-reflex agent starting at A with A Dirty
\* and B Clean, step 1 chooses Suck (performance 10, A Clean), step 2 Right
\* (performance 9, at B), step 3 Left (performance 8, at A); from then on the
\* agent alternates Right and Left, its performance falls by 1 at every step
\* and no status changes again.
C11_ReflexScenario ==
    /\ clock = 0 =>
          /\ status = DirtyAt({loc_A})
          /\ location[ReflexId] = loc_A
          /\ performance[ReflexId] = 0
    /\ clock >= 1 =>
          /\ status = DirtyAt({})
          /\ performance[ReflexId] = 11 - clock
          /\ location[ReflexId] = (IF clock % 2 = 0 THEN loc_B ELSE loc_A)
          /\ actions = <<IF clock = 1 THEN "Suck"
                         ELSE IF clock % 2 = 0 THEN "Right" ELSE "Left">>

C11_Witness ==
    /\ clock = 4
    /\ actions = <<"Right">>
    /\ performance[ReflexId] = 7
    /\ location[ReflexId] = loc_B

\* C12: in the scenario of one model-based agent starting at A with A Dirty
\* and B Clean, step 1 chooses Suck (performance 10), step 2 Right
\* (performance 9, at B), step 3 and every later step NoOp, with performance
\* 9 and location B ever after.
C12_ModelScenario ==
    /\ clock = 0 =>
          /\ status = DirtyAt({loc_A})
          /\ location[ModelBasedId] = loc_A
          /\ performance[ModelBasedId] = 0
    /\ clock = 1 =>
          /\ actions = <<"Suck">>
          /\ status = DirtyAt({})
          /\ location[ModelBasedId] = loc_A
          /\ performance[ModelBasedId] = 10
    /\ clock = 2 =>
          /\ actions = <<"Right">>
          /\ status = DirtyAt({})
          /\ location[ModelBasedId] = loc_B
          /\ performance[ModelBasedId] = 9
    /\ clock >= 3 =>
          /\ actions = <<"NoOp">>
          /\ status = DirtyAt({})
          /\ location[ModelBasedId] = loc_B
          /\ performance[ModelBasedId] = 9

C12_Witness ==
    /\ clock = 5
    /\ actions = <<"NoOp">>
    /\ performance[ModelBasedId] = 9
    /\ location[ModelBasedId] = loc_B

\* The locations Dirty at construction, and those of them cleaned since.
InitiallyDirty == {l \in Locations : status0[l] = "Dirty"}
Cleaned == {l \in InitiallyDirty : status[l] = "Clean"}

\* C18: a single model-based agent, from every initial status map and every
\* start location, makes exactly one move in the whole run (its performance
\* is 10 for each location cleaned minus the moves made), chooses NoOp at
\* every step from step 4 at the latest, and from then on status, location
\* and performance are fixed, both locations Clean and the performance
\* 10*d - 1 for d initially Dirty locations.
C18_ModelBasedSettles ==
    /\ [](LET moves == 10 * Cardinality(Cleaned) - performance[ModelBasedId]
          IN  /\ moves \in {0, 1}
              /\ clock >= 3 => moves = 1
              /\ clock >= 4 =>
                    /\ actions = <<"NoOp">>
                    /\ status = DirtyAt({})
                    /\ performance[ModelBasedId] = 10 * Cardinality(InitiallyDirty) - 1
                    /\ performance[ModelBasedId] \in {-1, 9, 19})
    /\ [][clock >= 3 =>
              /\ status' = status
              /\ location' = location
              /\ performance' = performance
              /\ clock' > clock => actions' = <<"NoOp">>]_vars

C18_Witness ==
    /\ clock = 6
    /\ InitiallyDirty = Locations
    /\ actions = <<"NoOp">>
    /\ performance[ModelBasedId] = 19

\* The direct calls of the table-driven program, in order, and the percepts
\* they were given.
TableCalls == SelectSeq(trace, LAMBDA c : c[1] = "TableDrivenAgent")
TableHistory == [k \in 1 .. Len(TableCalls) |-> TableCalls[k][2]]

\* C17: the table-driven program keeps the ordered history of all percepts
\* it has received: after its k-th call the history has length k and ends
\* with the percept of that call, and the k-th call returned the table's
\* action for the whole history of k percepts if the table has that key and
\* None otherwise; a miss does not reset the history.
C17_TableHistory ==
    /\ percepts[TableDrivenId] = TableHistory
    /\ \A k \in 1 .. Len(TableCalls) :
          LET key == SubSeq(TableHistory, 1, k)
          IN  TableCalls[k][3] = (IF key \in DOMAIN table THEN table[key] ELSE None)

C17_Witness ==
    /\ Len(TableCalls) = 3
    /\ TableCalls[2][3] = None
    /\ TableCalls[3][3] = "Right"
    /\ Len(percepts[TableDrivenId]) = 3

\* The agents registered in the environment.
Registered == {agents[i] : i \in 1 .. Len(agents)}

\* C16: the performance of a registered agent is changed by no operation
\* other than execute_action: computing the percepts and invoking the
\* programs of a step, exogenous_change and every add_object call leave the
\* performance of every already-registered agent as it was.
C16_PerformanceFrame ==
    [][/\ ChooseActions([State EXCEPT !.seen = <<>>, !.actions = <<>>], 1).performance
            = performance
       /\ exogenous_change(State).performance = performance
       /\ Len(objects') = Len(objects) + 1 =>
             \A a \in Registered : performance'[a] = performance[a]]_vars

\* C19: no operation clears an agent's liveness flag, so once an Agent has
\* been added the environment is never done: is_done() is false in every
\* state with an agent, every step() collects a percept and an action for
\* every entry of the agent list, and run(steps) makes exactly `steps`
\* steps; is_done() holds only while the agent list is empty.
C19_NeverDone ==
    [][/\ alive' = alive
       /\ \A a \in Registered : is_alive(a)
       /\ is_done(State) <=> Len(agents) = 0
       /\ Len(agents) > 0 =>
             /\ ~is_done(State)'
             /\ clock' = clock + 1 =>
                   /\ Len(seen') = Len(agents)
                   /\ Len(actions') = Len(agents)
             /\ \A steps \in 0 .. MaxSteps : Run(steps) => stepCalls' = steps]_vars

C19_Witness ==
    /\ Len(agents) = 2
    /\ runSteps = 2
    /\ stepCalls = 2
    /\ clock = 4
    /\ Len(actions) = 2

\* The sum of f over the finite set S.
RECURSIVE Sum(_, _)
Sum(f, S) == IF S = {} THEN 0
             ELSE LET x == CHOOSE y \in S : TRUE IN f[x] + Sum(f, S \ {x})

\* C20: with any number of agents and any policies, no location's status
\* goes from Clean to Dirty, and each Dirty location yields the +10 at most
\* once: in one step the agents together gain at most 10 for each location
\* that the step cleaned, and in every state the performances of the agents
\* sum to at most 10 for each initially Dirty location cleaned so far, hence
\* to at most 10 times the number of initially Dirty locations and to at
\* most 20.
C20_DirtPaysOnce ==
    /\ [](/\ Sum(performance, Registered) <= 10 * Cardinality(Cleaned)
          /\ Sum(performance, Registered) <= 10 * Cardinality(InitiallyDirty)
          /\ Sum(performance, Registered) <= 20)
    /\ [][/\ \A l \in Locations : status[l] = "Clean" => status'[l] = "Clean"
          /\ clock' > clock =>
                Sum(performance', Registered) - Sum(performance, Registered)
                   <= 10 * Cardinality({l \in Locations : status'[l] # status[l]})]_vars

C20_Witness ==
    /\ Len(agents) = 2
    /\ agents[1] # agents[2]
    /\ InitiallyDirty = Locations
    /\ Cleaned = Locations
    /\ Sum(performance, Registered) = 20
    /\ \A a \in Registered : performance[a] = 10

\* C15: in every reachable state, after any sequence of add_object, step and
\* run operations, the status map has an entry, Clean or Dirty, for A and
\* for B, every registered agent's location is A or B, and no percept has
\* failed on a missing location.
C15_OnTheMap ==
    /\ DOMAIN status = Locations
    /\ \A l \in Locations : status[l] \in Statuses
    /\ \A a \in Registered : location[a] \in Locations
    /\ error # "KeyError"

\* C14: an agent wrapped by TraceAgent behaves as the unwrapped agent.  A
\* call of the wrapper is one call of the original program with the same
\* percept (the program's memory moves as by that one call), returns its
\* action and prints one record; and the environment with traced agents has,
\* after the same calls, the same agent list, actions, statuses, locations,
\* performances and program memories as the one with untraced agents, each
\* step printing one record per agent.
C14_TraceTransparent ==
    /\ [](/\ \A a \in traced, p \in Percepts :
                LET r == AgentProgram(State, a, p)
                    q == Program(State, a, p)
                IN  /\ r.action = q.action
                    /\ r.s = [q.s EXCEPT !.printed = Append(printed, <<a, p, q.action>>)]
          /\ Registered \subseteq traced
          /\ twin.agents = agents
          /\ twin.seen = seen
          /\ twin.actions = actions
          /\ twin.status = status
          /\ twin.location = location
          /\ twin.performance = performance
          /\ twin.model = model
          /\ twin.percepts = percepts
          /\ twin.stepCalls = stepCalls
          /\ twin.printed = <<>>)
    /\ [][clock' = clock + 1 =>
             printed' = printed \o [i \in 1 .. Len(agents) |->
                                      <<agents[i], seen'[i], actions'[i]>>]]_vars

C14_Witness ==
    /\ clock = 3
    /\ Len(agents) = 2
    /\ agents[1] = TableDrivenId
    /\ agents[2] = ModelBasedId
    /\ Len(printed) = 6
    /\ actions = <<None, "NoOp">>

\* C13: compare_agents builds its n environments once and runs every agent
\* factory on its own deep copies.  The built instances stay as they were
\* built (the drawn statuses, no agents); the copies taken for a factory are
\* new instances, apart from the built ones and from every earlier copy; the
\* i-th trial of every factory starts from an instance equal to the i-th
\* built one; and a trial changes no instance but its own copy.
C13_FairCopies ==
    /\ [](/\ \A k \in 1 .. Len(cmp.envs) : cmp.heap[cmp.envs[k]] = Env0(cmp.drawn[k])
          /\ cmp.pc = "trial" =>
                /\ Len(cmp.copies) = Len(cmp.envs)
                /\ \A k \in 1 .. Len(cmp.copies) :
                      /\ \A j \in 1 .. Len(cmp.envs) : cmp.copies[k] # cmp.envs[j]
                      /\ \A j \in 1 .. Len(cmp.copies) : j # k => cmp.copies[j] # cmp.copies[k]
                      /\ cmp.copies[k] > Len(cmp.envs) * cmp.f
                      /\ k >= cmp.i =>
                            /\ cmp.heap[cmp.copies[k]] = cmp.heap[cmp.envs[k]]
                            /\ cmp.heap[cmp.copies[k]].status = cmp.drawn[k]
                            /\ cmp.heap[cmp.copies[k]].agents = <<>>)
    /\ [][(cmp.pc = "trial" /\ cmp'.pc = "trial") =>
             \A a \in 1 .. Len(cmp.heap) :
                a # cmp.copies[cmp.i] => cmp'.heap[a] = cmp.heap[a]]_vars

C13_Witness ==
    /\ cmp.pc = "returned"
    /\ Len(cmp.results) = 2
    /\ Len(cmp.envs) = 2
    /\ cmp.steps = 2
    /\ cmp.results[1] = <<ReflexId, 18, 2>>
    /\ cmp.results[2] = <<TableDrivenId, 9, 2>>
    /\ \E a \in 1 .. Len(cmp.heap) : cmp.heap[a].agents # <<>>

====
